---------------------------- MODULE Spec2Model ----------------------------
(***************************************************************************)
(* A model of package pools (buffer.go): the pooled Buffer, its            *)
(* UnsafeBytes escape hatch, the placeholder writers WriteGroups and       *)
(* WriteInterval, and the width calculator totalWidth.                     *)
(*                                                                         *)
(* Three specifications share the module:                                  *)
(*   Spec / LiveSpec  callers that follow the documented contract of       *)
(*                    GetBuffer, PutBuffer and UnsafeBytes;                *)
(*   SpecMisuse       callers that may keep using a Buffer after           *)
(*                    UnsafeBytes;                                         *)
(*   SpecWrite        one Buffer and the calls of WriteGroups and          *)
(*                    WriteInterval;                                       *)
(*   SpecWidth        totalWidth applied to inputs of a bounded set.       *)
(***************************************************************************)
EXTENDS Integers, Sequences, FiniteSets, TLC

VARIABLES
    \* --- the pool (bufferPool, Buffer.unsafe, Buffer.Len()) ---
    pool,      \* pool[b]: how many times Buffer b lies in bufferPool
    live,      \* the Buffers that are allocated objects
    unsafe,    \* unsafe[b]: Buffer.unsafe, 1 if UnsafeBytes was called
    len,       \* len[b]: b.Len()
    held,      \* held[c]: the Buffer caller c holds, or Nil
    views,     \* views[c]: the Buffers whose bytes caller c holds a slice of
    fin,       \* fin[b]: TRUE while a finalizer is set on b's bytes
    fault,     \* the panic that ended the process, or "none"
    last,      \* the last call of GetBuffer, PutBuffer, UnsafeBytes or the
               \* finalizer, if it was the last step: its Buffer and pre-state
    calls,     \* calls[c]: UnsafeBytes calls of c since its GetBuffer (0, 1,
               \* or 2 for two or more) and the Len() the first one found
    \* --- one Buffer under the writers ---
    buf,       \* the bytes written so far
    wlast,     \* the last writer call: its arguments and what it returned
    \* --- totalWidth ---
    wn,        \* the argument n
    wadd,      \* the argument add
    wres       \* <<what totalWidth returned>>, or <<>> before the call

poolVars  == <<pool, live, unsafe, len, held, views, fin, fault, last, calls>>
writeVars == <<buf, wlast>>
widthVars == <<wn, wadd, wres>>
vars      == <<pool, live, unsafe, len, held, views, fin, fault, last, calls,
               buf, wlast, wn, wadd, wres>>

\* no Buffer, no caller, no value: Buffers, callers and lengths are >= 0
Nil == 0 - 1

(***************************************************************************)
(* Go ints as decimal limbs.  The width table holds numbers up to          *)
(* 1688888888888888889; an int is modelled as its sequence of base-1000    *)
(* limbs, most significant first, <<>> for 0 (1,688 is <<1, 688>>).  A     *)
(* negative int carries negative limbs; only its sign is ever read.        *)
(***************************************************************************)
Limb == 10 * 10 * 10

Front(s) == SubSeq(s, 1, Len(s) - 1)
Last(s)  == s[Len(s)]
Last0(s) == IF s = <<>> THEN 0 ELSE Last(s)
Front0(s) == IF s = <<>> THEN <<>> ELSE Front(s)

RECURSIVE Norm(_)
Norm(a) == IF a # <<>> /\ a[1] = 0 THEN Norm(Tail(a)) ELSE a

RECURSIVE FromNat(_)
FromNat(i) == IF i = 0 THEN <<>> ELSE Append(FromNat(i \div Limb), i % Limb)

FromInt(i) == IF i >= 0 THEN FromNat(i)
              ELSE [k \in DOMAIN FromNat(-i) |-> -FromNat(-i)[k]]

RECURSIVE ToInt(_)
ToInt(a) == IF a = <<>> THEN 0 ELSE ToInt(Front(a)) * Limb + Last(a)

RECURSIVE AddC(_, _, _)
AddC(a, b, c) ==
    IF a = <<>> /\ b = <<>> THEN FromNat(c)
    ELSE LET s == Last0(a) + Last0(b) + c
         IN  Append(AddC(Front0(a), Front0(b), s \div Limb), s % Limb)

\* a + b, for a, b >= 0
Plus(a, b) == AddC(a, b, 0)

RECURSIVE SubB(_, _, _)
SubB(a, b, w) ==
    IF a = <<>> THEN <<>>
    ELSE LET d == Last(a) - Last0(b) - w
         IN  Append(SubB(Front(a), Front0(b), IF d < 0 THEN 1 ELSE 0),
                    IF d < 0 THEN d + Limb ELSE d)

\* a - b, for a >= b >= 0
Minus(a, b) == Norm(SubB(a, b, 0))

RECURSIVE MulC(_, _, _)
MulC(a, k, c) ==
    IF a = <<>> THEN FromNat(c)
    ELSE LET p == Last(a) * k + c
         IN  Append(MulC(Front(a), k, p \div Limb), p % Limb)

\* a * k, for a >= 0 and a small k >= 0
Times(a, k) == Norm(MulC(a, k, 0))

RECURSIVE LexLess(_, _)
LexLess(a, b) ==
    /\ a # <<>>
    /\ \/ a[1] < b[1]
       \/ a[1] = b[1] /\ LexLess(Tail(a), Tail(b))

\* a < b and a <= b, for a, b >= 0
Less(a, b) == \/ Len(a) < Len(b)
              \/ Len(a) = Len(b) /\ LexLess(a, b)
LessEq(a, b) == ~Less(b, a)

\* n <= 0
NonPositive(n) == n = <<>> \/ n[1] < 0

(***************************************************************************)
(* The width table and totalWidth.                                         *)
(***************************************************************************)
\* {pow, sum}
cache == <<
    << <<>>, <<>> >>,
    << <<9>>, <<9>> >>,
    << <<99>>, <<189>> >>,
    << <<999>>, <<2, 889>> >>,
    << <<9, 999>>, <<38, 889>> >>,
    << <<99, 999>>, <<488, 889>> >>,
    << <<999, 999>>, <<5, 888, 889>> >>,
    << <<9, 999, 999>>, <<68, 888, 889>> >>,
    << <<99, 999, 999>>, <<788, 888, 889>> >>,
    << <<999, 999, 999>>, <<8, 888, 888, 889>> >>,
    << <<9, 999, 999, 999>>, <<98, 888, 888, 889>> >>,
    << <<99, 999, 999, 999>>, <<1, 88, 888, 888, 889>> >>,
    << <<999, 999, 999, 999>>, <<11, 888, 888, 888, 889>> >>,
    << <<9, 999, 999, 999, 999>>, <<128, 888, 888, 888, 889>> >>,
    << <<99, 999, 999, 999, 999>>, <<1, 388, 888, 888, 888, 889>> >>,
    << <<999, 999, 999, 999, 999>>, <<14, 888, 888, 888, 888, 889>> >>,
    << <<9, 999, 999, 999, 999, 999>>, <<158, 888, 888, 888, 888, 889>> >>,
    << <<99, 999, 999, 999, 999, 999>>, <<1, 688, 888, 888, 888, 888, 889>> >>
>>

\* cache[i][0] and cache[i][1] of the Go table (indexed from 0)
cachePow(i) == cache[i + 1][1]
cacheSum(i) == cache[i + 1][2]

\* totalWidthScan with the digit count of the bracket below (i - 1 for i)
RECURSIVE totalWidthScanDigitsBelow(_, _, _)
totalWidthScanDigitsBelow(n, add, i) ==
    IF LessEq(n, cachePow(i))
    THEN Plus(Plus(Times(Minus(n, cachePow(i - 1)), i - 1), cacheSum(i - 1)),
              Times(n, add))
    ELSE totalWidthScanDigitsBelow(n, add, i + 1)

\* the loop of totalWidth: for i := 3; ; i++
RECURSIVE totalWidthScan(_, _, _)
totalWidthScan(n, add, i) ==
    IF LessEq(n, cachePow(i))
    THEN Plus(Plus(Times(Minus(n, cachePow(i - 1)), i), cacheSum(i - 1)),
              Times(n, add))
    ELSE totalWidthScan(n, add, i + 1)

totalWidth(n, add) ==
    IF NonPositive(n) THEN FromInt(add)
    ELSE IF Less(n, FromInt(10)) THEN Plus(n, Times(n, add))
    ELSE IF Less(n, FromInt(100))
         THEN Plus(Minus(Times(n, 2), FromInt(9)), Times(n, add))
    ELSE IF Less(cachePow(Len(cache) - 1), n) THEN <<>>
    ELSE totalWidthScan(n, add, 3)

(***************************************************************************)
(* Buffer's integer and placeholder writers.  A Buffer's content is the    *)
(* string of the bytes written.  The helpers and loops below yield the     *)
(* bytes they append, in the order the code writes them; WriteGroups and   *)
(* WriteInterval map the content before to the content after.              *)
(***************************************************************************)
DigitChar == <<"0", "1", "2", "3", "4", "5", "6", "7", "8", "9">>

RECURSIVE FormatNat(_)
FormatNat(i) == IF i < 10 THEN DigitChar[i + 1]
                ELSE FormatNat(i \div 10) \o DigitChar[(i % 10) + 1]

\* strconv.Itoa: base 10, no leading zeros, a leading '-' when negative
Itoa(i) == IF i < 0 THEN "-" \o FormatNat(-i) ELSE FormatNat(i)

\* the bytes w.WriteInt(i) appends
WriteInt(i) == Itoa(i)

\* The argument grow hands to w.Grow.  x >> intSize is 0 or -1 (every bit
\* the sign bit), so ^(x >> intSize) is all ones or 0, and the & keeps x
\* or clears it.
grow(start, end, num) ==
    LET width == ToInt(totalWidth(FromInt(end - start + 1), 3))
        x     == (width + 2) * num - 2
        shr   == IF x < 0 THEN -1 ELSE 0
        mask  == -shr - 1
    IN  IF mask = 0 THEN 0 ELSE x

\* for _, v := range prefix
RECURSIVE writeGroupPrefix(_)
writeGroupPrefix(prefix) ==
    IF prefix = <<>> THEN ""
    ELSE WriteInt(Head(prefix)) \o ", $" \o writeGroupPrefix(Tail(prefix))

\* for i := 1; i < groupLen; i, offset = i+1, offset+1
RECURSIVE writeGroupRest(_, _, _)
writeGroupRest(i, offset, groupLen) ==
    IF i < groupLen
    THEN ", $" \o WriteInt(offset + 1)
               \o writeGroupRest(i + 1, offset + 1, groupLen)
    ELSE ""

\* writeGroup returning the count of its loop (groupLen - 1) for groupLen
writeGroupLoopCount(prefix, offset, groupLen) ==
    [w   |-> " ($" \o writeGroupPrefix(prefix) \o WriteInt(offset)
                   \o writeGroupRest(1, offset, groupLen) \o ")",
     ret |-> groupLen - 1]

\* [w |-> the bytes appended, ret |-> the int returned]
writeGroup(prefix, offset, groupLen) ==
    [w   |-> " ($" \o writeGroupPrefix(prefix) \o WriteInt(offset)
                   \o writeGroupRest(1, offset, groupLen) \o ")",
     ret |-> groupLen]

\* for groups--; groups > 0; groups--   (entered with groups already lowered)
RECURSIVE WriteGroupsLoop(_, _, _, _)
WriteGroupsLoop(prefix, offset, groupLen, groups) ==
    IF groups > 0
    THEN LET g == writeGroup(prefix, offset, groupLen)
         IN  "," \o g.w
                 \o WriteGroupsLoop(prefix, offset + g.ret, groupLen,
                                    groups - 1)
    ELSE ""

\* [w |-> content after, err |-> "nil" or the error, grown |-> the argument
\*  of w.Grow, Nil when Grow was not called]
WriteGroups(w, offset, groupLen, groups, prefix) ==
    IF offset < 0 \/ groups = 0
    THEN [w |-> w, err |-> "invalid arguments to WriteGroups", grown |-> Nil]
    ELSE LET n == grow(0, groupLen, groups)
             g == writeGroup(prefix, offset, groupLen)
         IN  [w     |-> w \o g.w
                          \o WriteGroupsLoop(prefix, offset + g.ret, groupLen,
                                             groups - 1),
              err   |-> "nil",
              grown |-> n]

\* writeIntervalRest with i <= end for i < end
RECURSIVE writeIntervalRestInclusive(_, _)
writeIntervalRestInclusive(i, end) ==
    IF i <= end
    THEN ", $" \o WriteInt(i + 1) \o writeIntervalRestInclusive(i + 1, end)
    ELSE ""

\* for i := start; i < end; i++
RECURSIVE writeIntervalRest(_, _)
writeIntervalRest(i, end) ==
    IF i < end THEN ", $" \o WriteInt(i + 1) \o writeIntervalRest(i + 1, end)
    ELSE ""

\* for num--; num > 0; num--   (entered with num already lowered)
RECURSIVE WriteIntervalLoop(_, _, _)
WriteIntervalLoop(start, end, num) ==
    IF num > 0
    THEN ", ($" \o WriteInt(start) \o writeIntervalRest(start, end) \o ")"
                \o WriteIntervalLoop(start, end, num - 1)
    ELSE ""

\* WriteInterval with start > end for start >= end
WriteIntervalStrict(w, start, end, num) ==
    IF start < 0 \/ start > end \/ num = 0
    THEN [w |-> w, err |-> "invalid arguments to WriteInterval",
          grown |-> Nil]
    ELSE LET n == grow(start, end, num)
         IN  [w     |-> w \o " ($" \o WriteInt(start)
                          \o writeIntervalRest(start, end) \o ")"
                          \o WriteIntervalLoop(start, end, num - 1),
              err   |-> "nil",
              grown |-> n]

WriteInterval(w, start, end, num) ==
    IF start < 0 \/ start >= end \/ num = 0
    THEN [w |-> w, err |-> "invalid arguments to WriteInterval",
          grown |-> Nil]
    ELSE LET n == grow(start, end, num)
         IN  [w     |-> w \o " ($" \o WriteInt(start)
                          \o writeIntervalRest(start, end) \o ")"
                          \o WriteIntervalLoop(start, end, num - 1),
              err   |-> "nil",
              grown |-> n]

(***************************************************************************)
(* The pool.  Buffers are 1..NBuf, callers (goroutines) 1..NCallers.       *)
(* bufferPool is a sync.Pool: it holds pointers, so the same Buffer can    *)
(* lie in it more than once, it may drop what it holds, and Get may        *)
(* allocate through New.  A call is one step: a caller is the only user    *)
(* of the Buffer it holds, and the pool and Buffer.unsafe are only         *)
(* touched through sync.Pool and sync/atomic.                              *)
(***************************************************************************)
NBuf     == 2
NCallers == 2
MaxLen   == 1
MaxIdle  == 2

Buffers == 1..NBuf
Callers == 1..NCallers

NoFault == "none"

\* The part of the state the functions of buffer.go read and write.
State == [pool |-> pool, unsafe |-> unsafe, len |-> len, fin |-> fin,
          fault |-> fault]

Commit(s) == /\ pool' = s.pool
             /\ unsafe' = s.unsafe
             /\ len' = s.len
             /\ fin' = s.fin
             /\ fault' = s.fault

Panic(s, msg) == [s EXCEPT !.fault = msg]

\* PutBuffer without the check of b.unsafe
PutBufferNoCheck(s, b) == [s EXCEPT !.len[b] = 0, !.pool[b] = @ + 1]

PutBuffer(s, b) ==
    IF s.unsafe[b] # 0
    THEN Panic(s, "pools: PutBuffer called after UnsafeBytes without finalizer running")
    ELSE [s EXCEPT !.len[b] = 0, !.pool[b] = @ + 1]

\* the finalizer without its call of PutBuffer
finalizerNoPut(s, b) ==
    IF s.unsafe[b] # 1
    THEN Panic(s, "pools: Buffer.unsafe is not 1")
    ELSE [s EXCEPT !.unsafe[b] = 0]

\* The function handed to runtime.SetFinalizer.
finalizer(s, b) ==
    IF s.unsafe[b] # 1
    THEN Panic(s, "pools: Buffer.unsafe is not 1")
    ELSE PutBuffer([s EXCEPT !.unsafe[b] = 0], b)

\* UnsafeBytes that puts the Buffer back and returns b.Bytes() (the Marshal
\* of the doc comment)
UnsafeBytesPutsBack(s, b) ==
    [s |-> PutBuffer(s, b), ret |-> IF s.len[b] = 0 THEN "nil" ELSE "buf"]

\* UnsafeBytes with a plain store of 1 for the compare-and-swap
UnsafeBytesStore(s, b) ==
    IF s.len[b] = 0
    THEN [s |-> PutBuffer(s, b), ret |-> "nil"]
    ELSE [s |-> [s EXCEPT !.unsafe[b] = 1, !.fin[b] = TRUE], ret |-> "buf"]

\* [s |-> the state after, ret |-> "nil" or "buf", the slice returned]
UnsafeBytes(s, b) ==
    IF s.len[b] = 0
    THEN [s |-> PutBuffer(s, b), ret |-> "nil"]
    ELSE IF s.unsafe[b] # 0
    THEN [s |-> Panic(s, "pools: UnsafeBytes called twice"), ret |-> "nil"]
    ELSE [s |-> [s EXCEPT !.unsafe[b] = 1, !.fin[b] = TRUE], ret |-> "buf"]

NoCalls == [n |-> 0, first |-> Nil]

NoCall == [op |-> "none", b |-> Nil, was |-> 0, n |-> 0, nth |-> 0,
           first |-> Nil]

\* The record of a call: was and n are b's unsafe and Len() before it.
Call(op, b) == [NoCall EXCEPT !.op = op, !.b = b, !.was = unsafe[b],
                              !.n = len[b]]

Referenced(b) == \/ \E c \in Callers : held[c] = b \/ b \in views[c]
                 \/ fin[b]

PoolInit ==
    /\ pool = [b \in Buffers |-> 0]
    /\ live = {}
    /\ unsafe = [b \in Buffers |-> 0]
    /\ len = [b \in Buffers |-> 0]
    /\ held = [c \in Callers |-> Nil]
    /\ views = [c \in Callers |-> {}]
    /\ fin = [b \in Buffers |-> FALSE]
    /\ fault = NoFault
    /\ last = NoCall
    /\ calls = [c \in Callers |-> NoCalls]

\* bufferPool.Get() finds a Buffer in the pool.
GetBuffer(c) ==
    /\ UNCHANGED <<writeVars, widthVars>>
    /\ fault = NoFault
    /\ held[c] = Nil
    /\ \E b \in Buffers :
        /\ pool[b] > 0
        /\ pool' = [pool EXCEPT ![b] = @ - 1]
        /\ held' = [held EXCEPT ![c] = b]
        /\ last' = Call("GetBuffer", b)
    /\ calls' = [calls EXCEPT ![c] = NoCalls]
    /\ UNCHANGED <<live, unsafe, len, views, fin, fault>>

\* bufferPool.Get() calls New: new(Buffer), the zero Buffer.
GetBufferNew(c) ==
    /\ UNCHANGED <<writeVars, widthVars>>
    /\ fault = NoFault
    /\ held[c] = Nil
    /\ \E b \in Buffers \ live :
        /\ \A a \in Buffers \ live : b <= a
        /\ live' = live \cup {b}
        /\ held' = [held EXCEPT ![c] = b]
        /\ last' = Call("GetBuffer", b)
    /\ calls' = [calls EXCEPT ![c] = NoCalls]
    /\ UNCHANGED <<pool, unsafe, len, views, fin, fault>>

\* The holder writes a byte (any Write of the embedded bytes.Buffer).
Write(c) ==
    /\ UNCHANGED <<writeVars, widthVars>>
    /\ fault = NoFault
    /\ held[c] # Nil
    /\ len[held[c]] < MaxLen
    /\ len' = [len EXCEPT ![held[c]] = @ + 1]
    /\ last' = NoCall
    /\ UNCHANGED <<pool, live, unsafe, held, views, fin, fault, calls>>

\* The holder drains the Buffer (Reset, or reading it to the end).
Drain(c) ==
    /\ UNCHANGED <<writeVars, widthVars>>
    /\ fault = NoFault
    /\ held[c] # Nil
    /\ len[held[c]] > 0
    /\ len' = [len EXCEPT ![held[c]] = 0]
    /\ last' = NoCall
    /\ UNCHANGED <<pool, live, unsafe, held, views, fin, fault, calls>>

\* The holder calls PutBuffer and lets go of the Buffer.
CallPutBuffer(c) ==
    /\ UNCHANGED <<writeVars, widthVars>>
    /\ fault = NoFault
    /\ held[c] # Nil
    /\ pool[held[c]] < MaxIdle
    /\ Commit(PutBuffer(State, held[c]))
    /\ held' = [held EXCEPT ![c] = Nil]
    /\ calls' = [calls EXCEPT ![c] = NoCalls]
    /\ last' = Call("PutBuffer", held[c])
    /\ UNCHANGED <<live, views>>

\* The holder calls UnsafeBytes.  By the contract it lets go of the Buffer
\* and keeps the slice; with keep it goes on using the Buffer.
CallUnsafeBytes(c, keep) ==
    /\ UNCHANGED <<writeVars, widthVars>>
    /\ fault = NoFault
    /\ held[c] # Nil
    /\ pool[held[c]] < MaxIdle
    /\ LET b == held[c]
           r == UnsafeBytes(State, b)
       IN  /\ Commit(r.s)
           /\ views' = IF r.ret = "buf"
                       THEN [views EXCEPT ![c] = @ \cup {b}] ELSE views
           /\ held' = IF keep THEN held ELSE [held EXCEPT ![c] = Nil]
           /\ calls' = [calls EXCEPT ![c] =
                           IF ~keep THEN NoCalls
                           ELSE [n     |-> IF @.n = 0 THEN 1 ELSE 2,
                                 first |-> IF @.n = 0 THEN len[b]
                                           ELSE @.first]]
           /\ last' = [Call("UnsafeBytes", b) EXCEPT
                           !.nth = IF calls[c].n = 0 THEN 1 ELSE 2,
                           !.first = IF calls[c].n = 0 THEN len[b]
                                     ELSE calls[c].first]
    /\ UNCHANGED live

\* The caller lets go of a slice UnsafeBytes returned.
DropView(c) ==
    /\ UNCHANGED <<writeVars, widthVars>>
    /\ fault = NoFault
    /\ \E b \in views[c] :
        /\ views' = [views EXCEPT ![c] = @ \ {b}]
        /\ last' = NoCall
    /\ UNCHANGED <<pool, live, unsafe, len, held, fin, fault, calls>>

\* The runtime runs the finalizer of b's bytes: no slice of them is held.
RunFinalizer(b) ==
    /\ UNCHANGED <<writeVars, widthVars>>
    /\ fault = NoFault
    /\ fin[b]
    /\ \A c \in Callers : b \notin views[c]
    /\ pool[b] < MaxIdle
    /\ Commit(finalizer([State EXCEPT !.fin[b] = FALSE], b))
    /\ last' = Call("Finalizer", b)
    /\ UNCHANGED <<live, held, views, calls>>

\* sync.Pool drops a Buffer; one nothing refers to any more is collected.
Evict(b) ==
    /\ UNCHANGED <<writeVars, widthVars>>
    /\ fault = NoFault
    /\ pool[b] > 0
    /\ pool' = [pool EXCEPT ![b] = @ - 1]
    /\ LET gone == pool[b] = 1 /\ ~Referenced(b)
       IN  /\ live' = IF gone THEN live \ {b} ELSE live
           /\ unsafe' = IF gone THEN [unsafe EXCEPT ![b] = 0] ELSE unsafe
           /\ len' = IF gone THEN [len EXCEPT ![b] = 0] ELSE len
    /\ last' = NoCall
    /\ UNCHANGED <<held, views, fin, fault, calls>>

PoolNext ==
    \/ \E c \in Callers : \/ GetBuffer(c)
                          \/ GetBufferNew(c)
                          \/ Write(c)
                          \/ Drain(c)
                          \/ CallPutBuffer(c)
                          \/ CallUnsafeBytes(c, FALSE)
                          \/ DropView(c)
    \/ \E b \in Buffers : RunFinalizer(b) \/ Evict(b)

(***************************************************************************)
(* Callers that break the contract: they go on using the Buffer after      *)
(* UnsafeBytes (calling UnsafeBytes again, PutBuffer, writing, draining).  *)
(* Callers 1..NMisusers run, over at most NMisuseBuf Buffers.              *)
(***************************************************************************)
NMisusers  == 1
NMisuseBuf == 1

Misusers == 1..NMisusers

KeepUnsafeBytes(c) == CallUnsafeBytes(c, TRUE)

MisuseGetBufferNew(c) == Cardinality(live) < NMisuseBuf /\ GetBufferNew(c)

MisuseNext ==
    \/ \E c \in Misusers : \/ GetBuffer(c)
                           \/ MisuseGetBufferNew(c)
                           \/ Write(c)
                           \/ Drain(c)
                           \/ CallPutBuffer(c)
                           \/ CallUnsafeBytes(c, FALSE)
                           \/ KeepUnsafeBytes(c)
                           \/ DropView(c)
    \/ \E b \in Buffers : RunFinalizer(b) \/ Evict(b)

(***************************************************************************)
(* One Buffer under the writers.                                           *)
(***************************************************************************)
MaxOffset   == 2
MaxGroupLen == 4
MaxGroups   == 5
MaxPrefix   == 2
MaxEnd      == 5
MaxNum      == 2
MaxPre      == 1

Offsets     == (-1..MaxOffset) \cup {9, 99}
GroupLens   == -1..MaxGroupLen
GroupCounts == -1..MaxGroups
Prefixes    == {SubSeq(<<1, 10, 2, 3, 4>>, 1, k) : k \in 0..MaxPrefix}
Ends        == (-1..MaxEnd) \cup {10, 11}
Nums        == -1..MaxNum

NoWrite == [op |-> "none", args |-> <<>>, before |-> "", err |-> "nil",
            grown |-> Nil]

Written == wlast.op \in {"WriteGroups", "WriteInterval"}

WriteInit == buf = "" /\ wlast = NoWrite

\* Something is in the Buffer before the writer is called.
WriteByte ==
    /\ UNCHANGED <<poolVars, widthVars>>
    /\ ~Written
    /\ Len(buf) < MaxPre
    /\ buf' = buf \o "x"
    /\ wlast' = [NoWrite EXCEPT !.op = "WriteByte"]

CallWriteGroups ==
    /\ UNCHANGED <<poolVars, widthVars>>
    /\ ~Written
    /\ \E offset \in Offsets, groupLen \in GroupLens, groups \in GroupCounts,
          prefix \in Prefixes :
        LET r == WriteGroups(buf, offset, groupLen, groups, prefix)
        IN  /\ buf' = r.w
            /\ wlast' = [op |-> "WriteGroups",
                         args |-> <<offset, groupLen, groups, prefix>>,
                         before |-> buf, err |-> r.err, grown |-> r.grown]

CallWriteInterval ==
    /\ UNCHANGED <<poolVars, widthVars>>
    /\ ~Written
    /\ \E start \in Offsets, end \in Ends, num \in Nums :
        LET r == WriteInterval(buf, start, end, num)
        IN  /\ buf' = r.w
            /\ wlast' = [op |-> "WriteInterval",
                         args |-> <<start, end, num>>,
                         before |-> buf, err |-> r.err, grown |-> r.grown]

\* b.Reset()
Reset ==
    /\ UNCHANGED <<poolVars, widthVars>>
    /\ Written
    /\ buf' = ""
    /\ wlast' = NoWrite

WriteNext == WriteByte \/ CallWriteGroups \/ CallWriteInterval \/ Reset

(***************************************************************************)
(* totalWidth on its own.                                                  *)
(***************************************************************************)
MaxSmallN == 120
MaxPow    == 18
MaxAdd    == 3

RECURSIVE Pow10(_)
Pow10(k) == IF k = 0 THEN <<1>> ELSE Times(Pow10(k - 1), 10)

Around(p) == {Minus(p, <<2>>), Minus(p, <<1>>), p, Plus(p, <<1>>),
              Times(p, 5)}

WidthInputs == {FromInt(i) : i \in -1..MaxSmallN}
               \cup UNION {Around(Pow10(k)) : k \in 1..MaxPow}

WidthInit == wn \in WidthInputs /\ wadd \in 0..MaxAdd /\ wres = <<>>

Compute ==
    /\ UNCHANGED <<poolVars, writeVars>>
    /\ wres = <<>>
    /\ wres' = <<totalWidth(wn, wadd)>>
    /\ UNCHANGED <<wn, wadd>>

NextInput ==
    /\ UNCHANGED <<poolVars, writeVars>>
    /\ wres # <<>>
    /\ wn' \in WidthInputs
    /\ wadd' \in 0..MaxAdd
    /\ wres' = <<>>

WidthNext == Compute \/ NextInput

WidthIdle == wn = <<>> /\ wadd = 0 /\ wres = <<>>

(***************************************************************************)
(* The specifications.                                                     *)
(***************************************************************************)
Init == PoolInit /\ WriteInit /\ WidthIdle
Next == PoolNext
Spec == Init /\ [][Next]_vars

\* The runtime runs a finalizer that can run.
LiveSpec == Spec /\ \A b \in Buffers : WF_vars(RunFinalizer(b))

NextMisuse == MisuseNext
SpecMisuse == Init /\ [][NextMisuse]_vars

NextWrite == WriteNext
SpecWrite == Init /\ [][NextWrite]_vars

InitWidth == PoolInit /\ WriteInit /\ WidthInit
NextWidth == WidthNext
SpecWidth == InitWidth /\ [][NextWidth]_vars

(***************************************************************************)
(* What the claims are stated with.                                        *)
(***************************************************************************)
\* The number of decimal digits of i >= 1, and the digits of 1..n summed
\* one number at a time.
RECURSIVE Digits(_)
Digits(i) == IF i < 10 THEN 1 ELSE 1 + Digits(i \div 10)

\* the sum of Digits(i) + add over i in lo..hi, every i counted by itself
RECURSIVE BruteRange(_, _, _)
BruteRange(lo, hi, add) ==
    IF lo > hi THEN 0
    ELSE IF lo = hi THEN Digits(lo) + add
    ELSE LET mid == (lo + hi) \div 2
         IN  BruteRange(lo, mid, add) + BruteRange(mid + 1, hi, add)

BruteWidth(n, add) == BruteRange(1, n, add)

\* The same sum for an n of any size, one digit count at a time: d digits
\* for each of the numbers 10^(d-1) .. min(n, 10^d - 1).
NumDigits(n) == 3 * (Len(n) - 1)
                + (IF n[1] < 10 THEN 1 ELSE IF n[1] < 100 THEN 2 ELSE 3)

MinOf(a, b) == IF Less(a, b) THEN a ELSE b

RECURSIVE DigitSumTo(_, _)
DigitSumTo(n, d) ==
    IF d = 0 THEN <<>>
    ELSE Plus(DigitSumTo(n, d - 1),
              Times(Minus(MinOf(n, Minus(Pow10(d), <<1>>)),
                          Minus(Pow10(d - 1), <<1>>)), d))

DigitSum(n) == DigitSumTo(n, NumDigits(n))

\* The text the writers are to produce.
Placeholder(i) == "$" \o Itoa(i)

RECURSIVE Join(_, _)
Join(items, sep) ==
    IF Len(items) = 0 THEN ""
    ELSE IF Len(items) = 1 THEN items[1]
    ELSE items[1] \o sep \o Join(Tail(items), sep)

Parenthesised(nums) ==
    "(" \o Join([k \in 1..Len(nums) |-> Placeholder(nums[k])], ", ") \o ")"

ExpectedGroups(offset, groupLen, groups, prefix) ==
    Join([j \in 1..groups |->
             " " \o Parenthesised(
                 prefix \o [i \in 1..groupLen |->
                               offset + (j - 1) * groupLen + i - 1])],
         ",")

ExpectedInterval(start, end, num) ==
    " " \o Join([j \in 1..num |->
                    Parenthesised([i \in 1..(end - start + 1) |->
                                      start + i - 1])],
                ", ")

BruteMax == 10002

Threshold == cachePow(Len(cache) - 1)

PutBufferPanic ==
    "pools: PutBuffer called after UnsafeBytes without finalizer running"

(***************************************************************************)
(* The claims.                                                             *)
(***************************************************************************)

\* C1: with callers that only use a Buffer they hold, no Buffer whose
\* unsafe is 1 lies in the pool, a Buffer some caller holds a slice of is
\* neither in the pool nor held by anyone, and GetBuffer never returned a
\* Buffer that was Escaped or has a slice outstanding.
C1_EscapedNotIdle ==
    /\ \A b \in Buffers : unsafe[b] = 1 => pool[b] = 0
    /\ \A b \in Buffers :
          (\E c \in Callers : b \in views[c]) =>
              /\ pool[b] = 0
              /\ \A c \in Callers : held[c] # b
    /\ last.op = "GetBuffer" =>
          /\ last.was = 0
          /\ \A c \in Callers : last.b \notin views[c]

\* GetBuffer has just returned a Buffer while another is Escaped, its slice
\* still held.
C1_Witness ==
    /\ last.op = "GetBuffer"
    /\ \E b \in Buffers : /\ b # last.b
                          /\ unsafe[b] = 1
                          /\ \E c \in Callers : b \in views[c]

\* C2, as claimed: every UnsafeBytes call after the first of a checkout
\* panics, whatever Len() was at the first or at this call.
C2_SecondCallPanics ==
    (last.op = "UnsafeBytes" /\ last.nth >= 2) => fault # NoFault

\* C2, amended: an UnsafeBytes call after the first of a checkout panics
\* when the first call found the Buffer non-empty and the Buffer is still
\* Escaped (the finalizer has not run), whatever Len() is at this call.
C2_SecondCallPanicsWhileEscaped ==
    (/\ last.op = "UnsafeBytes"
     /\ last.nth >= 2
     /\ last.first > 0
     /\ last.was = 1) => fault # NoFault

\* A second UnsafeBytes call on a drained Buffer that the first call found
\* non-empty has panicked.
C2_Witness ==
    /\ last.op = "UnsafeBytes"
    /\ last.nth >= 2
    /\ last.first > 0
    /\ last.was = 1
    /\ last.n = 0
    /\ fault # NoFault

\* C3: PutBuffer on a Buffer whose unsafe is not 0 panics and leaves the
\* pool and every Buffer's length and unsafe as they were; PutBuffer on a
\* Buffer whose unsafe is 0 does not panic, leaves the Buffer with length 0
\* and adds it to the pool.
C3_PutBuffer ==
    [][last'.op = "PutBuffer" =>
          IF unsafe[last'.b] # 0
          THEN /\ fault' = PutBufferPanic
               /\ pool' = pool
               /\ len' = len
               /\ unsafe' = unsafe
          ELSE /\ fault' = NoFault
               /\ len'[last'.b] = 0
               /\ unsafe'[last'.b] = 0
               /\ pool'[last'.b] = pool[last'.b] + 1]_vars

\* PutBuffer was called on an Escaped Buffer whose slice is still held.
C3_Witness ==
    /\ last.op = "PutBuffer"
    /\ last.was = 1
    /\ last.n > 0
    /\ \E c \in Callers : last.b \in views[c]
    /\ fault = PutBufferPanic

\* C4: once no slice of an Escaped Buffer is held any more, the finalizer
\* eventually runs and the Buffer lies in the pool with length 0 and
\* unsafe 0, where GetBuffer can find it.
C4_Reclaimed ==
    \A b \in Buffers :
        (fin[b] /\ unsafe[b] = 1 /\ \A c \in Callers : b \notin views[c])
            ~> (pool[b] > 0 /\ len[b] = 0 /\ unsafe[b] = 0 /\ ~fin[b])

\* The finalizer has run on a Buffer that was Escaped and non-empty, and
\* the Buffer is in the pool again, empty.
C4_Witness ==
    /\ last.op = "Finalizer"
    /\ last.was = 1
    /\ last.n > 0
    /\ pool[last.b] > 0
    /\ len[last.b] = 0
    /\ unsafe[last.b] = 0

\* C5, as claimed: a call of WriteGroups or WriteInterval that passes
\* validation on an empty Buffer writes no more bytes than grow reserved.
C5_WrittenWithinGrown ==
    (Written /\ wlast.err = "nil" /\ wlast.before = "") =>
        Len(buf) <= wlast.grown

\* C6: for 1 <= n <= the largest threshold of the table and add >= 0,
\* totalWidth(n, add) is the sum over i in 1..n of (digits of i + add).
C6_TotalWidthIsDigitSum ==
    (wres # <<>> /\ ~NonPositive(wn) /\ LessEq(wn, Threshold)) =>
        /\ wres[1] = Plus(DigitSum(wn), Times(wn, wadd))
        /\ Less(wn, FromInt(BruteMax)) =>
              ToInt(wres[1]) = BruteWidth(ToInt(wn), wadd)

\* totalWidth was applied to the largest threshold, with add > 0.
C6_Witness ==
    /\ wres # <<>>
    /\ wn = Threshold
    /\ wadd > 0
    /\ wres[1] # <<>>

\* C7: WriteGroups returns an error exactly when offset < 0 or groups = 0,
\* WriteInterval exactly when start < 0, start >= end or num = 0; a call
\* that returns an error has not called Grow and leaves the content as it
\* was.
C7_Validation ==
    /\ wlast.op = "WriteGroups" =>
          (wlast.err # "nil") = (wlast.args[1] < 0 \/ wlast.args[3] = 0)
    /\ wlast.op = "WriteInterval" =>
          (wlast.err # "nil") = (\/ wlast.args[1] < 0
                                 \/ wlast.args[1] >= wlast.args[2]
                                 \/ wlast.args[3] = 0)
    /\ (Written /\ wlast.err # "nil") =>
          buf = wlast.before /\ wlast.grown = Nil

\* WriteInterval with start = end returned an error on a Buffer that held a
\* byte.
C7_Witness ==
    /\ wlast.op = "WriteInterval"
    /\ wlast.args[1] = wlast.args[2]
    /\ wlast.args[1] >= 0
    /\ wlast.args[3] > 0
    /\ wlast.err # "nil"
    /\ wlast.before = "x"
    /\ buf = "x"

C9_WriteInterval ==
    (/\ wlast.op = "WriteInterval"
     /\ 0 <= wlast.args[1]
     /\ wlast.args[1] < wlast.args[2]
     /\ wlast.args[3] >= 1) =>
        /\ wlast.err = "nil"
        /\ buf = wlast.before
                 \o ExpectedInterval(wlast.args[1], wlast.args[2],
                                     wlast.args[3])
        /\ (wlast.args = <<0, 4, 2>> /\ wlast.before = "") =>
              buf = " ($0, $1, $2, $3, $4), ($0, $1, $2, $3, $4)"
        /\ (wlast.args = <<1, 5, 1>> /\ wlast.before = "") =>
              buf = " ($1, $2, $3, $4, $5)"

\* WriteInterval(9, 11, 2) was called on an empty Buffer.
C9_Witness ==
    /\ wlast.op = "WriteInterval"
    /\ wlast.args = <<9, 11, 2>>
    /\ buf = " ($9, $10, $11), ($9, $10, $11)"

\* C10, as claimed: WriteGroups with groupLen = 0, offset >= 0 and
\* groups >= 1 returns no error and writes groups that hold the prefix
\* placeholders and nothing else.
C10_GroupLenZero ==
    (/\ wlast.op = "WriteGroups"
     /\ wlast.args[1] >= 0
     /\ wlast.args[2] = 0
     /\ wlast.args[3] >= 1) =>
        /\ wlast.err = "nil"
        /\ buf = wlast.before
                 \o ExpectedGroups(wlast.args[1], 0, wlast.args[3],
                                   wlast.args[4])

=============================================================================
